---------------------------- MODULE Spec2Model ----------------------------
(***************************************************************************)
(* Model of ApiSpeedTester (api-speed-tester.ts): the probe                *)
(* (testSingleApi), the ranking comparator, and the two race coordinators  *)
(* testConcurrentWithFastest and getBestRouteWithContinuousTesting, run on *)
(* a JavaScript event loop (run-to-completion handlers, FIFO               *)
(* continuations).                                                         *)
(***************************************************************************)
EXTENDS Integers, Sequences, FiniteSets, TLC

(***************************************************************************)
(* Bounds of the model.                                                    *)
(***************************************************************************)
\* largest number of configured domains
MaxDomains == 2
\* last value of the millisecond clock
MaxTime == 1
\* number of domains and last clock value when two races overlap
OverlapDomains == 1
OverlapTime == 1
\* number of domains and last clock value when the probe is run on every
\* outcome of the transport
ProbeDomains == 1
ProbeTime == 1
\* number of domains and last clock value when the optional settings vary
ConfigDomains == 1
ConfigTime == 1
\* number of domains and last clock value when the clock can be set back
ClockDomains == 1
ClockTime == 1
\* number of domains and last clock value when every request ends
LiveDomains == 2
LiveTime == 1

\* race invocations on the one ApiSpeedTester instance
Races == {1, 2}

(***************************************************************************)
(* State.                                                                  *)
(***************************************************************************)
VARIABLES
  scenario,          \* what the caller and the network may do in this run
  domains,           \* config.domains
  now,               \* Date.now()
  pc,                \* where each invocation is
  method,            \* the method each invocation called
  onFastestResult,   \* the hook passed to it: "absent", "returns" or "throws"
  startTime,         \* startTime of each probe
  requests,          \* axios.get calls issued for each position
  probe,             \* each map callback's promise
  wire,              \* how the request of each probe ended
  result,            \* what testSingleApi returned to each callback
  microtasks,        \* callbacks whose await has a value, in resumption order
  results,           \* const results: ApiTestResult[]
  fastest,           \* let fastest: ApiTestResult | null
  fastestReturned,   \* fastestReturned / fastestResolved
  hookCalls,         \* the arguments of the calls of onFastestResult so far
  fastestPromise,    \* fastestPromise
  allResultsPromise, \* allResultsPromise: "pending", or "fulfilled" with results
  ret                \* what the invocation returned to its caller; its
                     \* allResults is the array results itself

vars == <<scenario, domains, now, pc, method, onFastestResult, startTime,
          requests, probe, wire, result, microtasks, results, fastest,
          fastestReturned, hookCalls, fastestPromise, allResultsPromise, ret>>

(***************************************************************************)
(* Values.                                                                 *)
(***************************************************************************)
Undefined == "undefined"
\* a promise: pending (value unused), or fulfilled with a value
Pending(unused) == [state |-> "pending", value |-> unused]
Fulfilled(v) == [state |-> "fulfilled", value |-> v]

\* the configured domain at each position (names may repeat)
DomainNames == <<"a.example.com", "b.example.com", "a.example.com", "c.example.com">>

\* JSON values used as bodies, named; Fields gives each one's own enumerable
\* properties in insertion order, a property value "undefined" being a
\* property that holds undefined
Fields(body) ==
  CASE body = "id1"      -> << <<"id", "1">> >>
    [] body = "id2"      -> << <<"id", "2">> >>
    [] body = "id1x"     -> << <<"id", "1">>, <<"x", "undefined">> >>
    [] body = "ab"       -> << <<"a", "1">>, <<"b", "2">> >>
    [] body = "ba"       -> << <<"b", "2">>, <<"a", "1">> >>
    [] OTHER             -> << >>

RECURSIVE StringifyFields(_)
StringifyFields(fs) ==
  IF fs = << >> THEN ""
  ELSE LET rest == StringifyFields(Tail(fs))
           this == IF Head(fs)[2] = "undefined" THEN ""
                   ELSE "\"" \o Head(fs)[1] \o "\":" \o Head(fs)[2]
       IN  IF this = "" THEN rest
           ELSE IF rest = "" THEN this
           ELSE this \o "," \o rest

\* JSON.stringify of a body
JSONstringify(body) ==
  IF body = Undefined THEN Undefined
  ELSE "{" \o StringifyFields(Fields(body)) \o "}"

\* config.expectedResponse
expectedResponse == scenario.expectedResponse

\* the values a caller configures as expectedResponse; one holds a property
\* that is undefined and one refers to itself, which no parsed response body
\* does
ExpectedBodies == {"id1", "id1x", "ab", "cyclic"}

\* JSON.stringify throws a TypeError for a value that refers to itself
stringifyThrows(body) == body = "cyclic"

\* a catch block that returns true
validateCatchTrue(actual, expected) ==
  IF stringifyThrows(actual) \/ stringifyThrows(expected) THEN TRUE
  ELSE JSONstringify(actual) = JSONstringify(expected)

\* a comparison of the two objects by identity
validateByIdentity(actual, expected) == FALSE

\* try { return JSON.stringify(actual) === JSON.stringify(expected) }
\* catch { return false }
validateResponse(actual, expected) ==
  IF stringifyThrows(actual) \/ stringifyThrows(expected) THEN FALSE
  ELSE JSONstringify(actual) = JSONstringify(expected)

(***************************************************************************)
(* The transport (axios.get) and the probe.                                *)
(***************************************************************************)
\* what the network does with one request
Wire(kind, status, statusText, data, code, hasResponse, hasRequest, message) ==
  [kind |-> kind, status |-> status, statusText |-> statusText, data |-> data,
   code |-> code, hasResponse |-> hasResponse, hasRequest |-> hasRequest,
   message |-> message]

WireOkMatch    == Wire("response", 200, "OK", "id1", "", TRUE, TRUE, "")
WireOkMismatch == Wire("response", 200, "OK", "id2", "", TRUE, TRUE, "")
WireHttp500    == Wire("response", 500, "Internal Server Error", Undefined, "", TRUE, TRUE, "")
WireTimeout    == Wire("axiosError", 0, "", Undefined, "ECONNABORTED", FALSE, TRUE,
                       "timeout of 5000ms exceeded")
WireRefused    == Wire("axiosError", 0, "", Undefined, "ECONNREFUSED", FALSE, TRUE,
                       "connect ECONNREFUSED")

WireOk299      == Wire("response", 299, "", "id1", "", TRUE, TRUE, "")
WireHttp300    == Wire("response", 300, "Multiple Choices", Undefined, "", TRUE, TRUE, "")
WireHttp404    == Wire("response", 404, "Not Found", "id1", "", TRUE, TRUE, "")
WireOkAB       == Wire("response", 200, "OK", "ab", "", TRUE, TRUE, "")
WireOkBA       == Wire("response", 200, "OK", "ba", "", TRUE, TRUE, "")
\* an AxiosError raised before any request was made
WireSetup      == Wire("axiosError", 0, "", Undefined, "ERR_INVALID_URL", FALSE, FALSE,
                       "Invalid URL")
\* a thrown Error that is no AxiosError, and a thrown value that is no Error
WireError      == Wire("error", 0, "", Undefined, "", FALSE, FALSE, "socket hang up")
WireNonError   == Wire("nonError", 0, "", Undefined, "", FALSE, FALSE, "")
\* no request has ended
\* an AxiosError with code ECONNABORTED that also carries a response
WireAborted    == Wire("axiosError", 502, "Bad Gateway", Undefined, "ECONNABORTED", TRUE, TRUE,
                       "aborted")
NoWire         == Wire("none", 0, "", Undefined, "", FALSE, FALSE, "")

\* the outcomes of a request in a race
RaceWires == {WireOkMatch, WireOkMismatch, WireHttp500, WireTimeout}
\* the outcomes of a request when two races overlap
OverlapWires == {WireOkMatch, WireTimeout}
\* every outcome of a request
ProbeWires ==
  RaceWires \cup {WireRefused, WireOk299, WireHttp300, WireHttp404, WireOkAB, WireOkBA,
                  WireSetup, WireError, WireNonError, WireAborted}

\* the range with its upper end included
validateStatusInclusive(status) == status >= 200 /\ status <= 300

validateStatus(status) == status >= 200 /\ status < 300

\* axios.get: a response whose status validateStatus refuses is thrown as an
\* AxiosError that carries the response
axiosGet(w) ==
  IF w.kind = "response" /\ ~validateStatus(w.status)
  THEN [w EXCEPT !.kind = "axiosError", !.code = "ERR_BAD_RESPONSE",
                 !.message = "Request failed with status code " \o ToString(w.status)]
  ELSE w

ApiTestResult(pos, domain, responseTime, success, data, error) ==
  [pos |-> pos, domain |-> domain, responseTime |-> responseTime,
   success |-> success, data |-> data, error |-> error]

\* JavaScript null for a result
Null == ApiTestResult(0, "", 0, FALSE, Undefined, Undefined)

\* the catch block with errorMessage declared without its initial value
errorMessageNoDefault(e) ==
  IF e.kind = "axiosError"
  THEN IF e.code = "ECONNABORTED" THEN "timeout"
       ELSE IF e.hasResponse
            THEN "HTTP " \o ToString(e.status) \o ": " \o e.statusText
       ELSE IF e.hasRequest THEN "network connection failed"
       ELSE e.message
  ELSE IF e.kind = "error" THEN e.message
  ELSE Undefined

\* the catch block with the test of request before the test of response
errorMessageRequestFirst(e) ==
  IF e.kind = "axiosError"
  THEN IF e.code = "ECONNABORTED" THEN "timeout"
       ELSE IF e.hasRequest THEN "network connection failed"
       ELSE IF e.hasResponse
            THEN "HTTP " \o ToString(e.status) \o ": " \o e.statusText
       ELSE e.message
  ELSE IF e.kind = "error" THEN e.message
  ELSE "unknown error"

\* the catch block with the test of response before the test of the code
errorMessageResponseFirst(e) ==
  IF e.kind = "axiosError"
  THEN IF e.hasResponse
       THEN "HTTP " \o ToString(e.status) \o ": " \o e.statusText
       ELSE IF e.code = "ECONNABORTED" THEN "timeout"
       ELSE IF e.hasRequest THEN "network connection failed"
       ELSE e.message
  ELSE IF e.kind = "error" THEN e.message
  ELSE "unknown error"

\* the message of the catch block (the source's messages are Chinese text;
\* each is written here as a distinct English string)
errorMessage(e) ==
  IF e.kind = "axiosError"
  THEN IF e.code = "ECONNABORTED" THEN "timeout"
       ELSE IF e.hasResponse
            THEN "HTTP " \o ToString(e.status) \o ": " \o e.statusText
       ELSE IF e.hasRequest THEN "network connection failed"
       ELSE e.message
  ELSE IF e.kind = "error" THEN e.message
  ELSE "unknown error"

\* testSingleApi: the outcome of the probe of the domain at position pos whose
\* request ended as w, responseTime ms after the probe started
testSingleApi(pos, domain, w, responseTime) ==
  LET r == axiosGet(w) IN
  IF r.kind = "response"
  THEN LET isExpectedResponse == validateResponse(r.data, expectedResponse) IN
       ApiTestResult(pos, domain, responseTime, isExpectedResponse, r.data,
                     IF isExpectedResponse THEN Undefined ELSE "response mismatch")
  ELSE ApiTestResult(pos, domain, responseTime, FALSE, Undefined, errorMessage(r))

(***************************************************************************)
(* Ranking: results.sort((a, b) => ...).                                   *)
(***************************************************************************)
\* a comparator that looks at responseTime only
compareTimeOnly(a, b) == a.responseTime - b.responseTime

compare(a, b) ==
  IF a.success /\ ~b.success THEN -1
  ELSE IF ~a.success /\ b.success THEN 1
  ELSE a.responseTime - b.responseTime

\* results.filter((r) => r.success)
successResults(rs) == SelectSeq(rs, LAMBDA x : x.success)

\* the first element of the list, without the filter
bestRouteUnfiltered(rs) == IF rs = << >> THEN Null ELSE rs[1]

\* getBestRoute: null when successResults is empty, else successResults[0]
bestRoute(rs) ==
  IF Len(successResults(rs)) = 0 THEN Null ELSE successResults(rs)[1]

\* an insertion that puts x before the elements it compares equal to
RECURSIVE InsertBeforeEqual(_, _)
InsertBeforeEqual(s, x) ==
  IF s = << >> THEN <<x>>
  ELSE IF compare(Head(s), x) < 0 THEN <<Head(s)>> \o InsertBeforeEqual(Tail(s), x)
  ELSE <<x>> \o s

\* x put into the sorted sequence s after every element that does not
\* compare greater than it (Array.prototype.sort is stable)
RECURSIVE Insert(_, _)
Insert(s, x) ==
  IF s = << >> THEN <<x>>
  ELSE IF compare(Head(s), x) <= 0 THEN <<Head(s)>> \o Insert(Tail(s), x)
  ELSE <<x>> \o s

\* no sort at all
unsorted(s) == s

RECURSIVE sort(_)
sort(s) ==
  IF s = << >> THEN << >>
  ELSE Insert(sort(SubSeq(s, 1, Len(s) - 1)), s[Len(s)])



Positions == 1..Len(domains)

TCF == "testConcurrentWithFastest"
GBR == "getBestRouteWithContinuousTesting"
\* test(), which runs testConcurrentWithFastest() through testConcurrent()
TEST == "test"
\* getBestRoute(), which runs test()
BEST == "getBestRoute"
\* test() of the version with the concurrent option, called with
\* concurrent: false: it runs testSequential()
SEQ == "testSequential"

\* the value of ret before the invocation returns
NotReturned ==
  [fastest |-> Null, completedCount |-> 0, totalCount |-> 0, bestRoute |-> Null]

Prefix(n) == SubSeq(DomainNames, 1, n)

Methods == {TCF, GBR, TEST, BEST, SEQ}
Hooks == {"absent", "returns", "throws"}
\* the calls of the public methods: only testConcurrentWithFastest takes a
\* hook
Calls == {c \in Methods \X Hooks : c[1] # TCF => c[2] = "absent"}

\* what the caller passes to the constructor for the optional settings
Given(hasTimeout, timeout, hasHeaders, headers) ==
  [hasTimeout |-> hasTimeout, timeout |-> timeout,
   hasHeaders |-> hasHeaders, headers |-> headers]

\* neither timeout nor headers is passed
GivenNothing == Given(FALSE, 0, FALSE, {})

\* the configurations of the optional settings: each passed or left out
Givens ==
  {Given(ht, IF ht THEN 3000 ELSE 0, hh, IF hh THEN {<<"X-Token", "t">>} ELSE {}) :
     ht \in BOOLEAN, hh \in BOOLEAN}

defaultTimeout == 5000
defaultHeaders == {<<"Content-Type", "application/json">>}

\* the constructor: the defaults, overwritten by the spread of the config
constructor(given) ==
  [timeout |-> IF given.hasTimeout THEN given.timeout ELSE defaultTimeout,
   headers |-> IF given.hasHeaders THEN given.headers ELSE defaultHeaders]

\* this.config
config == constructor(scenario.given)

\* the options testSingleApi passes to axios.get
requestOptions == [timeout |-> config.timeout, headers |-> config.headers]

\* the invocation runs the body of testConcurrentWithFastest
runsTCF(r) == method[r] \in {TCF, TEST, BEST}

InitRaces ==
  /\ now = 0
  /\ pc = [r \in Races |-> "idle"]
  /\ method = [r \in Races |-> "none"]
  /\ onFastestResult = [r \in Races |-> "absent"]
  /\ startTime = [r \in Races |-> [i \in Positions |-> 0]]
  /\ requests = [r \in Races |-> [i \in Positions |-> 0]]
  /\ probe = [r \in Races |-> [i \in Positions |-> "unstarted"]]
  /\ wire = [r \in Races |-> [i \in Positions |-> NoWire]]
  /\ result = [r \in Races |-> [i \in Positions |-> Null]]
  /\ microtasks = << >>
  /\ results = [r \in Races |-> << >>]
  /\ fastest = [r \in Races |-> Null]
  /\ fastestReturned = [r \in Races |-> FALSE]
  /\ hookCalls = [r \in Races |-> << >>]
  /\ fastestPromise = [r \in Races |-> Pending(Null)]
  /\ allResultsPromise = [r \in Races |-> "pending"]
  /\ ret = [r \in Races |-> NotReturned]

\* one invocation, of any method, over any configured list; test() is run
\* by getBestRoute()
Init ==
  /\ scenario = [calls |-> [r \in Races |->
                              IF r = 1 THEN Calls \ {<<TEST, "absent">>} ELSE {}],
                 wires |-> RaceWires, horizon |-> MaxTime,
                 expectedResponse |-> "id1",
                 given |-> GivenNothing, clock |-> "steady"]
  /\ \E n \in 0..MaxDomains : domains = Prefix(n)
  /\ InitRaces

\* two invocations on the same instance that overlap, the first of
\* testConcurrentWithFastest with a hook and the second of
\* getBestRouteWithContinuousTesting; or one invocation of getBestRoute or of
\* the serial test
InitOverlap ==
  /\ \E c \in {<<TCF, "returns">>, <<BEST, "absent">>, <<SEQ, "absent">>} :
       scenario = [calls |-> [r \in Races |->
                                IF r = 1 THEN {c}
                                ELSE IF c[1] = TCF THEN {<<GBR, "absent">>} ELSE {}],
                   wires |-> OverlapWires, horizon |-> OverlapTime,
                   expectedResponse |-> "id1",
                   given |-> GivenNothing, clock |-> "steady"]
  /\ \E n \in 0..OverlapDomains : domains = Prefix(n)
  /\ InitRaces

\* one invocation over at most ProbeDomains domains whose requests end in
\* every way, for every configured expectedResponse
InitProbe ==
  /\ \E e \in ExpectedBodies :
       scenario = [calls |-> [r \in Races |->
                                IF r = 1 THEN {<<GBR, "absent">>, <<BEST, "absent">>,
                                               <<SEQ, "absent">>}
                                ELSE {}],
                   wires |-> ProbeWires, horizon |-> ProbeTime,
                   expectedResponse |-> e,
                   given |-> GivenNothing, clock |-> "steady"]
  /\ \E n \in 0..ProbeDomains : domains = Prefix(n)
  /\ InitRaces

\* one invocation over at most ConfigDomains domains, for every way of
\* passing or leaving out the optional settings
InitConfig ==
  /\ \E g \in Givens :
       scenario = [calls |-> [r \in Races |->
                                IF r = 1 THEN {<<GBR, "absent">>, <<TEST, "absent">>,
                                               <<BEST, "absent">>, <<SEQ, "absent">>}
                                ELSE {}],
                   wires |-> OverlapWires, horizon |-> ConfigTime,
                   expectedResponse |-> "id1",
                   given |-> g, clock |-> "steady"]
  /\ \E n \in 0..ConfigDomains : domains = Prefix(n)
  /\ InitRaces

\* one invocation over at most ClockDomains domains on a system whose clock
\* can be set back while the probes run
InitClock ==
  /\ scenario = [calls |-> [r \in Races |->
                              IF r = 1 THEN {<<GBR, "absent">>, <<BEST, "absent">>,
                                             <<SEQ, "absent">>}
                              ELSE {}],
                 wires |-> ProbeWires, horizon |-> ClockTime,
                 expectedResponse |-> "id1",
                 given |-> GivenNothing, clock |-> "adjusted"]
  /\ \E n \in 0..ClockDomains : domains = Prefix(n)
  /\ InitRaces

\* one invocation, of any method, over at most LiveDomains domains
InitLive ==
  /\ scenario = [calls |-> [r \in Races |->
                              IF r = 1 THEN Calls \ {<<TEST, "absent">>} ELSE {}],
                 wires |-> OverlapWires, horizon |-> LiveTime,
                 expectedResponse |-> "id1",
                 given |-> GivenNothing, clock |-> "steady"]
  /\ \E n \in 0..LiveDomains : domains = Prefix(n)
  /\ InitRaces

(***************************************************************************)
(* Steps.                                                                  *)
(***************************************************************************)
\* Date.now() advances, or reads less than before after the system clock
\* was set back
Tick ==
  /\ \/ now < scenario.horizon /\ now' = now + 1
     \/ scenario.clock = "adjusted" /\ now > 0 /\ now' = now - 1
  /\ UNCHANGED <<scenario, domains, pc, method, onFastestResult, startTime,
                 requests, probe, wire, result, microtasks, results, fastest,
                 fastestReturned, hookCalls, fastestPromise, allResultsPromise, ret>>

\* a probe that issues its request a second time
requestsWithRetry == 1 + 1

\* the number of axios.get calls one probe makes
requestsPerProbe == 1

\* a loop that starts the first probe only and awaits it
launchFirstOnly(i) == IF i = 1 THEN "inflight" ELSE "unstarted"

\* domains.map(async (domain) => ...) calls the callback for every position:
\* each runs up to its await, with its request issued
launch(i) == "inflight"

\* The synchronous part of an invocation: domains.map starts every probe, each
\* reading Date.now() and issuing its request, up to the first await of the
\* method.  The clock may advance once while the probes are started: those at
\* positions 1..k read the old value, the others the new one.
Start(r, m, hook, k) ==
  /\ <<m, hook>> \in scenario.calls[r]
  /\ m # SEQ
  /\ pc[r] = "idle"
  /\ k < Len(domains) => now < scenario.horizon
  /\ now' = IF k < Len(domains) THEN now + 1 ELSE now
  /\ method' = [method EXCEPT ![r] = m]
  /\ onFastestResult' = [onFastestResult EXCEPT ![r] = hook]
  /\ startTime' = [startTime EXCEPT ![r] =
                     [i \in Positions |-> IF i <= k THEN now ELSE now + 1]]
  /\ requests' = [requests EXCEPT ![r] =
                     [i \in Positions |-> requests[r][i] + requestsPerProbe]]
  /\ probe' = [probe EXCEPT ![r] = [i \in Positions |-> launch(i)]]
  /\ pc' = [pc EXCEPT ![r] = IF m = GBR THEN "awaitFastest" ELSE "awaitAllSettled"]
  /\ UNCHANGED <<scenario, domains, wire, result, microtasks, results, fastest,
                 fastestReturned, hookCalls, fastestPromise, allResultsPromise, ret>>

\* The request of probe i ends as w: testSingleApi computes its outcome and
\* returns it, which queues the resumption of the callback that awaits it.
Respond(r, i, w) ==
  /\ probe[r][i] = "inflight"
  /\ w \in scenario.wires
  /\ wire' = [wire EXCEPT ![r][i] = w]
  /\ result' = [result EXCEPT ![r][i] =
                  testSingleApi(i, domains[i], w, now - startTime[r][i])]
  /\ probe' = [probe EXCEPT ![r][i] = "returned"]
  /\ microtasks' = Append(microtasks, <<r, i>>)
  /\ UNCHANGED <<scenario, domains, now, pc, method, onFastestResult, startTime,
                 requests, results, fastest, fastestReturned, hookCalls,
                 fastestPromise, allResultsPromise, ret>>

\* push that keeps only the outcomes of successful probes
pushSuccessOnly(rs, x) == IF x.success THEN Append(rs, x) ELSE rs

\* push by two callbacks that read the same length: the later write lands on
\* the slot of the earlier one
pushSameSlot(rs, x) == IF rs = << >> THEN <<x>> ELSE [rs EXCEPT ![Len(rs)] = x]

\* unshift in place of push: the outcome is put in front
unshift(rs, x) == <<x>> \o rs

\* results.push(result)
push(rs, x) == Append(rs, x)

\* the latch without its !fastest test
isAnySuccess(x, f) == x.success

\* the latch without its success test
isFirstCompletion(x, f) == f = Null

\* a latch kept on the instance, which every invocation reads
isFirstSuccessOfInstance(x, f) == x.success /\ \A q \in Races : fastest[q] = Null

\* if (result.success && !fastest)
isFirstSuccess(x, f) == x.success /\ f = Null

\* the hook test with the flag inverted
shouldNotifyInverted(hook, returned) == hook # "absent" /\ returned

\* if (onFastestResult && !fastestReturned)
shouldNotify(hook, returned) == hook # "absent" /\ ~returned

\* The callback of domains.map resumes with the outcome of its probe: the
\* rest of its body runs to completion.  A hook that throws rejects the
\* callback's promise after the push and the latch.
Resume(r, i) ==
  /\ microtasks # << >>
  /\ Head(microtasks) = <<r, i>>
  /\ method[r] # SEQ
  /\ microtasks' = Tail(microtasks)
  /\ LET x == result[r][i]
         first == isFirstSuccess(x, fastest[r])
         notify == first /\ runsTCF(r)
                         /\ shouldNotify(onFastestResult[r], fastestReturned[r])
         resolve == first /\ method[r] = GBR /\ ~fastestReturned[r]
     IN  /\ results' = [results EXCEPT ![r] = push(results[r], x)]
         /\ fastest' = [fastest EXCEPT ![r] =
                          IF (runsTCF(r) /\ first) \/ resolve THEN x ELSE @]
         /\ fastestReturned' = [fastestReturned EXCEPT ![r] = @ \/ notify \/ resolve]
         /\ hookCalls' = [hookCalls EXCEPT ![r] = IF notify THEN Append(@, x) ELSE @]
         /\ fastestPromise' = [fastestPromise EXCEPT ![r] =
                                 IF resolve /\ @.state = "pending"
                                 THEN Fulfilled(x) ELSE @]
         /\ probe' = [probe EXCEPT ![r][i] =
                        IF notify /\ onFastestResult[r] = "throws"
                        THEN "rejected" ELSE "fulfilled"]
  /\ UNCHANGED <<scenario, domains, now, pc, method, onFastestResult, startTime,
                 requests, wire, result, allResultsPromise, ret>>

\* a loop that ends at the first success
breakOnSuccess(x) == ~x.success

\* for (const domain of this.config.domains): the loop goes on to the next
\* domain whatever the outcome
nextDomain(x) == TRUE

\* test() with concurrent: false calls testSequential, which starts the
\* probe of the first domain and awaits it; over an empty list it returns at
\* once.
StartSequential(r) ==
  /\ <<SEQ, "absent">> \in scenario.calls[r]
  /\ pc[r] = "idle"
  /\ method' = [method EXCEPT ![r] = SEQ]
  /\ startTime' = [startTime EXCEPT ![r] = [i \in Positions |-> IF i = 1 THEN now ELSE @[i]]]
  /\ requests' = [requests EXCEPT ![r] =
                     [i \in Positions |-> IF i = 1 THEN @[i] + requestsPerProbe ELSE @[i]]]
  /\ probe' = [probe EXCEPT ![r] =
                  [i \in Positions |-> IF i = 1 THEN "inflight" ELSE @[i]]]
  /\ pc' = [pc EXCEPT ![r] = IF Len(domains) = 0 THEN "testSort" ELSE "awaitProbe"]
  /\ UNCHANGED <<scenario, domains, now, onFastestResult, wire, result, microtasks,
                 results, fastest, fastestReturned, hookCalls, fastestPromise,
                 allResultsPromise, ret>>

\* testSequential resumes with the outcome of probe i: it pushes it and
\* starts the probe of the next domain, or returns results to test() after
\* the last one.
SeqResume(r, i) ==
  /\ microtasks # << >>
  /\ Head(microtasks) = <<r, i>>
  /\ method[r] = SEQ
  /\ microtasks' = Tail(microtasks)
  /\ results' = [results EXCEPT ![r] = push(results[r], result[r][i])]
  /\ LET more == i < Len(domains) /\ nextDomain(result[r][i]) IN
       /\ probe' = [probe EXCEPT ![r] =
                      [j \in Positions |->
                         IF j = i THEN "fulfilled"
                         ELSE IF more /\ j = i + 1 THEN "inflight" ELSE @[j]]]
       /\ startTime' = [startTime EXCEPT ![r] =
                          [j \in Positions |-> IF more /\ j = i + 1 THEN now ELSE @[j]]]
       /\ requests' = [requests EXCEPT ![r] =
                         [j \in Positions |->
                            IF more /\ j = i + 1 THEN @[j] + requestsPerProbe ELSE @[j]]]
       /\ pc' = [pc EXCEPT ![r] = IF more THEN "awaitProbe" ELSE "testSort"]
  /\ UNCHANGED <<scenario, domains, now, method, onFastestResult, wire, result,
                 fastest, fastestReturned, hookCalls, fastestPromise,
                 allResultsPromise, ret>>

\* a wait that ends as soon as a fastest outcome is latched
fastestOrAllSettled(r) ==
  \/ fastest[r] # Null
  \/ \A i \in Positions : probe[r][i] \in {"fulfilled", "rejected"}

\* Promise.all(promises), which settles at the first rejection
allFulfilledOrOneRejected(r) ==
  \/ \A i \in Positions : probe[r][i] = "fulfilled"
  \/ \E i \in Positions : probe[r][i] = "rejected"

\* a wait for every promise to be fulfilled
allFulfilled(r) == \A i \in Positions : probe[r][i] = "fulfilled"

\* Promise.allSettled(promises) is fulfilled once every promise is fulfilled
\* or rejected
allSettled(r) == \A i \in Positions : probe[r][i] \in {"fulfilled", "rejected"}

\* a count of the successful outcomes only
successCount(rs) == Cardinality({j \in 1..Len(rs) : rs[j].success})

\* completedCount: results.length
completedCount(rs) == Len(rs)

\* testConcurrentWithFastest resumes after await Promise.allSettled: it sorts
\* results in place and returns, to its caller or to test().
Finish(r) ==
  /\ pc[r] = "awaitAllSettled"
  /\ allSettled(r)
  /\ results' = [results EXCEPT ![r] = sort(@)]
  /\ ret' = [ret EXCEPT ![r] =
               [fastest |-> fastest[r],
                completedCount |-> completedCount(results'[r]),
                totalCount |-> Len(domains),
                bestRoute |-> Null]]
  /\ pc' = [pc EXCEPT ![r] =
               IF method[r] \in {TEST, BEST} THEN "testSort" ELSE "returned"]
  /\ UNCHANGED <<scenario, domains, now, method, onFastestResult, startTime,
                 requests, probe, wire, result, microtasks, fastest, fastestReturned,
                 hookCalls, fastestPromise, allResultsPromise>>

\* test() resumes with result.allResults, the array results (or with the
\* array testSequential returns): it sorts it in place once more and returns
\* it, to its caller or to getBestRoute().
TestSort(r) ==
  /\ pc[r] = "testSort"
  /\ results' = [results EXCEPT ![r] = sort(@)]
  /\ pc' = [pc EXCEPT ![r] = IF method[r] = BEST THEN "bestRoute" ELSE "returned"]
  /\ UNCHANGED <<scenario, domains, now, method, onFastestResult, startTime,
                 requests, probe, wire, result, microtasks, fastest,
                 fastestReturned, hookCalls, fastestPromise, allResultsPromise, ret>>

\* getBestRoute resumes after await this.test() and returns the first
\* successful outcome of the ranked list, or null.
GetBestRoute(r) ==
  /\ pc[r] = "bestRoute"
  /\ ret' = [ret EXCEPT ![r].bestRoute = bestRoute(results[r])]
  /\ pc' = [pc EXCEPT ![r] = "returned"]
  /\ UNCHANGED <<scenario, domains, now, method, onFastestResult, startTime,
                 requests, probe, wire, result, microtasks, results, fastest,
                 fastestReturned, hookCalls, fastestPromise, allResultsPromise>>

\* a promise whose value is overwritten with null, whatever resolved it
resolveNullAlways(p, fastestResolved) == Fulfilled(Null)

\* if (!fastestResolved) resolveFastest(null); resolving a promise that is
\* already fulfilled does nothing
resolveNull(p, fastestResolved) ==
  IF ~fastestResolved /\ p.state = "pending" THEN Fulfilled(Null) ELSE p

\* The then-callback of Promise.allSettled(testPromises) in
\* getBestRouteWithContinuousTesting: it resolves fastestPromise with null
\* when nothing resolved it, sorts results in place and fulfils
\* allResultsPromise with them.
AllSettledThen(r) ==
  /\ method[r] = GBR
  /\ allResultsPromise[r] = "pending"
  /\ allSettled(r)
  /\ fastestPromise' = [fastestPromise EXCEPT ![r] =
                          resolveNull(@, fastestReturned[r])]
  /\ results' = [results EXCEPT ![r] = sort(@)]
  /\ allResultsPromise' = [allResultsPromise EXCEPT ![r] = "fulfilled"]
  /\ UNCHANGED <<scenario, domains, now, pc, method, onFastestResult, startTime,
                 requests, probe, wire, result, microtasks, fastest, fastestReturned,
                 hookCalls, ret>>

\* an await of allResultsPromise in place of fastestPromise
allResultsAvailable(r) == allResultsPromise[r] = "fulfilled"

\* await fastestPromise has a value
fastestAvailable(r) == fastestPromise[r].state = "fulfilled"

\* getBestRouteWithContinuousTesting resumes after await fastestPromise and
\* returns { fastest, allResults: allResultsPromise }.
ReturnFastest(r) ==
  /\ pc[r] = "awaitFastest"
  /\ fastestAvailable(r)
  /\ ret' = [ret EXCEPT ![r] =
               [NotReturned EXCEPT !.fastest = fastestPromise[r].value]]
  /\ pc' = [pc EXCEPT ![r] = "returned"]
  /\ UNCHANGED <<scenario, domains, now, method, onFastestResult, startTime,
                 requests, probe, wire, result, microtasks, results, fastest,
                 fastestReturned, hookCalls, fastestPromise, allResultsPromise>>

Next ==
  \/ Tick
  \/ \E r \in Races, m \in Methods, hook \in Hooks, k \in 0..Len(domains) :
       Start(r, m, hook, k)
  \/ \E r \in Races, i \in Positions, w \in ProbeWires : Respond(r, i, w)
  \/ \E r \in Races : StartSequential(r)
  \/ \E r \in Races, i \in Positions : Resume(r, i)
  \/ \E r \in Races, i \in Positions : SeqResume(r, i)
  \/ \E r \in Races : Finish(r)
  \/ \E r \in Races : TestSort(r)
  \/ \E r \in Races : GetBestRoute(r)
  \/ \E r \in Races : AllSettledThen(r)
  \/ \E r \in Races : ReturnFastest(r)

Spec == Init /\ [][Next]_vars

SpecOverlap == InitOverlap /\ [][Next]_vars

SpecProbe == InitProbe /\ [][Next]_vars

SpecConfig == InitConfig /\ [][Next]_vars

SpecClock == InitClock /\ [][Next]_vars

\* Every request ends, and the event loop runs every continuation that is
\* ready.
Fairness ==
  /\ WF_vars(\E r \in Races, i \in Positions, w \in ProbeWires : Respond(r, i, w))
  /\ WF_vars(\E r \in Races, i \in Positions : Resume(r, i))
  /\ WF_vars(\E r \in Races, i \in Positions : SeqResume(r, i))
  /\ WF_vars(\E r \in Races : Finish(r))
  /\ WF_vars(\E r \in Races : TestSort(r))
  /\ WF_vars(\E r \in Races : GetBestRoute(r))
  /\ WF_vars(\E r \in Races : AllSettledThen(r))
  /\ WF_vars(\E r \in Races : ReturnFastest(r))

SpecLive == InitLive /\ [][Next]_vars /\ Fairness


(***************************************************************************)
(* Properties.                                                             *)
(***************************************************************************)
Settled(r) == {i \in Positions : probe[r][i] \in {"fulfilled", "rejected"}}

\* the invocation still collects outcomes: results is in completion order
Collecting(r) ==
  \/ pc[r] = "awaitAllSettled"
  \/ method[r] = GBR /\ allResultsPromise[r] = "pending"

\* the final allResults of the invocation is available: results, ranked
HasFinal(r) ==
  \/ runsTCF(r) /\ pc[r] \in {"testSort", "bestRoute", "returned"}
  \/ method[r] = GBR /\ allResultsPromise[r] = "fulfilled"

Successes(s) == {j \in 1..Len(s) : s[j].success}

FirstSuccess(s) ==
  IF Successes(s) = {} THEN Null
  ELSE s[CHOOSE j \in Successes(s) : \A k \in Successes(s) : j <= k]

Ranked(s) ==
  \A j, k \in 1..Len(s) :
    j < k => /\ s[k].success => s[j].success
             /\ s[j].success = s[k].success => s[j].responseTime <= s[k].responseTime

\* s holds exactly one outcome for each configured position
OnePerPosition(s) ==
  /\ Len(s) = Len(domains)
  /\ \A i \in Positions :
       Cardinality({j \in 1..Len(s) : s[j].pos = i /\ s[j].domain = domains[i]}) = 1

\* C1: the final allResults of a race holds exactly N outcomes, one for each
\* configured position, none missing and none twice, whatever the outcomes.
C1_Completeness ==
  \A r \in Races : HasFinal(r) => OnePerPosition(results[r])

C1_Witness ==
  \E r \in Races :
    /\ HasFinal(r) /\ Len(domains) = 2
    /\ \E j, k \in 1..Len(results[r]) :
         /\ results[r][j].success
         /\ results[r][k].error = "timeout"

\* C2: while outcomes are collected, fastest is the first successful outcome
\* in completion order (null when there is none), and once set no step
\* changes it.
C2_FastestLatchedOnce ==
  /\ [](\A r \in Races : Collecting(r) => fastest[r] = FirstSuccess(results[r]))
  /\ [][\A r \in Races : fastest[r] # Null => fastest'[r] = fastest[r]]_vars

\* a second success completed after the latch and is ranked first; fastest
\* is still the one that completed first
C2_Witness ==
  \E r \in Races :
    /\ HasFinal(r)
    /\ Cardinality(Successes(results[r])) = 2
    /\ fastest[r].success
    /\ results[r][1] # fastest[r]

\* C3: with a hook passed to testConcurrentWithFastest, the hook has been
\* called exactly once, with the latched outcome, when an outcome is latched,
\* and never otherwise; the result returned carries that same outcome as
\* fastest, and carries one if and only if some probe succeeded.
C3_HookOnce ==
  \A r \in Races :
    method[r] = TCF /\ onFastestResult[r] # "absent" =>
      /\ hookCalls[r] = IF fastest[r] = Null THEN << >> ELSE <<fastest[r]>>
      /\ pc[r] = "returned" =>
           /\ ret[r].fastest = fastest[r]
           /\ (fastest[r] # Null) <=> (Successes(results[r]) # {})

C3_Witness ==
  \E r \in Races :
    /\ method[r] = TCF /\ onFastestResult[r] = "returns" /\ pc[r] = "returned"
    /\ Cardinality(Successes(results[r])) = 2
    /\ hookCalls[r] = <<ret[r].fastest>>

\* C4: a race in which every probe failed raises nothing: no promise of the
\* race is rejected, fastest is null, the fastest value of
\* getBestRouteWithContinuousTesting is available only once every probe has
\* settled, and the final allResults holds the N failed outcomes, ranked.
C4_AllFailed ==
  \A r \in Races :
    /\ HasFinal(r) /\ Successes(results[r]) = {} =>
         /\ Len(results[r]) = Len(domains)
         /\ Ranked(results[r])
         /\ fastest[r] = Null
         /\ \A i \in Positions : probe[r][i] = "fulfilled"
         /\ method[r] = TCF => ret[r].fastest = Null
         /\ method[r] = GBR => fastestPromise[r] = Fulfilled(Null)
    /\ method[r] = GBR /\ Successes(results[r]) = {} /\ fastestAvailable(r) =>
         /\ Settled(r) = Positions
         /\ fastestPromise[r].value = Null
         /\ pc[r] = "returned" => ret[r].fastest = Null

\* two failures, the slower one completed first
C4_Witness ==
  \E r \in Races :
    /\ method[r] = GBR /\ pc[r] = "returned" /\ HasFinal(r)
    /\ Len(results[r]) = 2 /\ Successes(results[r]) = {}
    /\ results[r][1].pos = 2
    /\ results[r][1].responseTime < results[r][2].responseTime

\* C5: a race over an empty list of domains does not resolve: it neither
\* returns a result nor fulfils allResults.
C5_EmptyListRejected ==
  \A r \in Races :
    Len(domains) = 0 => pc[r] # "returned" /\ allResultsPromise[r] # "fulfilled"

\* C6: the final allResults is ranked, successes before failures and
\* responseTime non-decreasing within each, and holds exactly the outcomes
\* the probes returned.
C6_Ranked ==
  \A r \in Races :
    HasFinal(r) =>
      /\ Ranked(results[r])
      /\ Len(results[r]) = Len(domains)
      /\ \A i \in Positions : \E j \in 1..Len(results[r]) : results[r][j] = result[r][i]

\* a success that took longer than a failure is ranked before it
C6_Witness ==
  \E r \in Races :
    /\ HasFinal(r) /\ Len(results[r]) = 2
    /\ results[r][1].success /\ ~results[r][2].success
    /\ results[r][1].responseTime > results[r][2].responseTime

\* C7: a latched fastest cancels nothing: a probe still in flight can still
\* end in every way, the final allResults is not available before every
\* probe has settled, and the outcome of every settled probe is in results
\* as the probe returned it.
C7_NoCancellation ==
  \A r \in Races :
    /\ \A i \in Positions :
         /\ probe[r][i] = "inflight" =>
              \A w \in scenario.wires : ENABLED Respond(r, i, w)
         /\ i \in Settled(r) =>
              \E j \in 1..Len(results[r]) : results[r][j] = result[r][i]
    /\ HasFinal(r) => Settled(r) = Positions

\* a probe that succeeded after the latch is in the final allResults
C7_Witness ==
  \E r \in Races :
    /\ method[r] = GBR /\ HasFinal(r)
    /\ \E j \in 1..Len(results[r]) :
         /\ results[r][j].success
         /\ results[r][j] # fastest[r]
         /\ results[r][j].pos = 1

\* C8: in getBestRouteWithContinuousTesting the fastest value is available
\* to the awaiting call as soon as a success is latched, whether or not
\* other probes are in flight, and allResults is fulfilled only when every
\* probe has settled.
C8_TwoAwaitables ==
  \A r \in Races :
    method[r] = GBR =>
      /\ fastest[r] # Null => fastestPromise[r] = Fulfilled(fastest[r])
      /\ fastestPromise[r].state = "fulfilled" /\ pc[r] = "awaitFastest" =>
           ENABLED ReturnFastest(r)
      /\ allResultsPromise[r] = "fulfilled" => Settled(r) = Positions
      /\ pc[r] = "returned" /\ Settled(r) # Positions =>
           /\ allResultsPromise[r] = "pending"
           /\ ret[r].fastest.success

\* the call has returned fastest while another probe is in flight
C8_Witness ==
  \E r \in Races :
    /\ method[r] = GBR /\ pc[r] = "returned"
    /\ ret[r].fastest.success
    /\ \E i \in Positions : probe[r][i] = "inflight"
    /\ allResultsPromise[r] = "pending"

\* C9: every completion appends its outcome once and none is lost: results
\* holds one outcome for each settled probe; and a step that sets fastest
\* finds it null and is the step that appends that outcome.
C9_OncePerCompletion ==
  /\ [](\A r \in Races :
          /\ Len(results[r]) = Cardinality(Settled(r))
          /\ \A i \in Settled(r) :
               Cardinality({j \in 1..Len(results[r]) : results[r][j].pos = i}) = 1)
  /\ [][\A r \in Races :
          fastest'[r] # fastest[r] =>
            /\ fastest[r] = Null
            /\ results'[r] = Append(results[r], fastest'[r])]_vars

\* both callbacks have resumed, the slower success first
C9_Witness ==
  \E r \in Races :
    /\ Len(results[r]) = 2 /\ Collecting(r)
    /\ results[r][1].success /\ results[r][2].success
    /\ results[r][1].responseTime > results[r][2].responseTime

\* C10: a caller that uses the hook and the promise pair has every domain
\* requested once in all.
C10_ProbedOnce ==
  method[1] = TCF /\ method[2] = GBR =>
    \A i \in Positions : requests[1][i] + requests[2][i] <= 1


\* the requests of the invocation that have ended
Ended(r) == {i \in Positions : wire[r][i] # NoWire}

\* C11: in one invocation of a concurrent method every configured position
\* has its probe started once, with one request issued, and a probe whose
\* request has ended is never in flight again.
C11_OneRequestNoRetry ==
  \A r \in Races : \A i \in Positions :
    method[r] # SEQ =>
    /\ requests[r][i] = IF pc[r] = "idle" THEN 0 ELSE 1
    /\ i \in Ended(r) => probe[r][i] \in {"returned", "fulfilled", "rejected"}

\* every probe failed and the invocation has returned
C11_Witness ==
  \E r \in Races :
    /\ pc[r] = "returned" /\ Len(domains) = 2
    /\ \A i \in Positions : ~result[r][i].success /\ requests[r][i] = 1
    /\ result[r][1].error = "timeout"

\* C12: when the completion of any probe of a concurrent method is
\* processed, every probe of the invocation has been started and has issued
\* its request.
C12_AllStartedFirst ==
  \A r \in Races :
    method[r] # SEQ /\ Ended(r) # {} =>
      \A j \in Positions : probe[r][j] # "unstarted" /\ requests[r][j] >= 1

\* the second probe has completed while the first is in flight
C12_Witness ==
  \E r \in Races :
    /\ Len(domains) = 2
    /\ probe[r][2] = "fulfilled"
    /\ probe[r][1] = "inflight"

\* the request ended in an error thrown to testSingleApi
Thrown(w) == axiosGet(w).kind # "response"

\* C13: however its request ends, the probe returns an outcome for its own
\* position and domain, and the callback that awaits it is not rejected by
\* it; a request that ended in a thrown value of any kind gives success =
\* false, and every failure carries a failure reason.
C13_ProbeNeverThrows ==
  \A r \in Races : \A i \in Ended(r) :
    LET x == result[r][i] IN
      /\ x.pos = i /\ x.domain = domains[i]
      /\ x.success \in BOOLEAN
      /\ x.responseTime \in Int
      /\ Thrown(wire[r][i]) => ~x.success
      /\ ~x.success => x.error # Undefined /\ x.error # ""
      /\ probe[r][i] # "rejected"

\* a value that is no Error was thrown
C13_Witness ==
  \E r \in Races : \E i \in Ended(r) :
    /\ wire[r][i] = WireNonError
    /\ result[r][i].error = "unknown error"
    /\ probe[r][i] = "fulfilled"

\* C14: every outcome carries exactly one of data and error: data and no
\* error when success = true, error and no data when success = false.
C14_ExactlyOne ==
  \A r \in Races : \A i \in Ended(r) :
    LET x == result[r][i] IN
      /\ x.success => x.data # Undefined /\ x.error = Undefined
      /\ ~x.success => x.error # Undefined /\ x.data = Undefined

\* a body as a value: its properties after a JSON round trip, in order
JSONValue(body) == SelectSeq(Fields(body), LAMBDA f : f[2] # "undefined")

\* the two bodies are the same value
SameValue(a, b) == JSONValue(a) = JSONValue(b)

\* the two bodies have the same properties, in whatever order
SameUpToOrder(a, b) ==
  {JSONValue(a)[j] : j \in 1..Len(JSONValue(a))}
    = {JSONValue(b)[j] : j \in 1..Len(JSONValue(b))}

HttpReason(w) == "HTTP " \o ToString(w.status) \o ": " \o w.statusText

\* C15: success = true if and only if the response has a status in
\* [200, 300) and its body is the expected value; a 2xx response with
\* another body gives the mismatch reason, and a response with a status
\* outside [200, 300) gives the HTTP reason with its status code.
C15_SuccessIff ==
  \A r \in Races : \A i \in Ended(r) :
    LET x == result[r][i]
        w == wire[r][i]
        in2xx == w.kind = "response" /\ w.status \in 200..299
    IN  /\ x.success <=> (in2xx /\ SameValue(w.data, scenario.expectedResponse))
        /\ in2xx /\ ~SameValue(w.data, scenario.expectedResponse) =>
             x.error = "response mismatch"
        /\ w.kind = "response" /\ ~in2xx => x.error = HttpReason(w)

\* a response with status 300
C15_Witness ==
  \E r \in Races : \E i \in Ended(r) :
    /\ wire[r][i] = WireHttp300
    /\ result[r][i].error = "HTTP 300: Multiple Choices"

\* C16: a 2xx body that is the same value as the expected one is accepted,
\* and a body that differs from it in more than the order of its keys is
\* rejected with the mismatch reason.
C16_ExactEquality ==
  \A r \in Races : \A i \in Ended(r) :
    LET x == result[r][i]
        w == wire[r][i]
    IN  ~Thrown(w) =>
          /\ SameValue(w.data, scenario.expectedResponse) => x.success
          /\ ~SameUpToOrder(w.data, scenario.expectedResponse) =>
               ~x.success /\ x.error = "response mismatch"

\* a body with two keys is accepted
C16_Witness ==
  \E r \in Races : \E i \in Ended(r) :
    /\ wire[r][i] = WireOkAB
    /\ scenario.expectedResponse = "ab"
    /\ result[r][i].success

\* what the transport did, for each way a request fails
TransportKind(w) ==
  CASE w = WireTimeout -> "timeout"
    [] w \in {WireHttp500, WireHttp300, WireHttp404} -> "httpStatus"
    [] w = WireRefused -> "connectionFailure"
    [] w \in {WireSetup, WireError, WireNonError} -> "other"
    [] OTHER -> "none"

ReasonFor(w) ==
  CASE TransportKind(w) = "timeout" -> "timeout"
    [] TransportKind(w) = "httpStatus" -> HttpReason(w)
    [] TransportKind(w) = "connectionFailure" -> "network connection failed"
    [] TransportKind(w) = "other" ->
         IF w = WireNonError THEN "unknown error" ELSE w.message
    [] OTHER -> Undefined

Arrivals(s) ==
  {q \in [1..Len(s) -> 1..Len(s)] : \A j, k \in 1..Len(s) : j # k => q[j] # q[k]}

Reordered(s, q) == [j \in 1..Len(s) |-> s[q[j]]]

Tied(x, y) == x.success = y.success /\ x.responseTime = y.responseTime

NoTies(s) == \A j, k \in 1..Len(s) : j # k => ~Tied(s[j], s[k])

\* C18: the final allResults is the ranking of its outcomes in whatever
\* order they completed.
C18_OrderIndependent ==
  \A r \in Races :
    HasFinal(r) =>
      \A q \in Arrivals(results[r]) : sort(Reordered(results[r], q)) = results[r]

\* C18, amended: when no two outcomes have the same success flag and the
\* same responseTime, the final allResults is the ranking of its outcomes in
\* whatever order they completed.
C18_OrderIndependentNoTies ==
  \A r \in Races :
    HasFinal(r) /\ NoTies(results[r]) =>
      \A q \in Arrivals(results[r]) : sort(Reordered(results[r], q)) = results[r]

\* a success and a failure that took the same time
C18_Witness ==
  \E r \in Races :
    /\ HasFinal(r) /\ Len(results[r]) = 2 /\ NoTies(results[r])
    /\ results[r][1].responseTime = results[r][2].responseTime

IndexOf(s, x) == CHOOSE j \in 1..Len(s) : s[j] = x

\* outcomes that tie are in the same relative order in after as in before
KeepsTies(before, after) ==
  \A j, k \in 1..Len(before) :
    j < k /\ Tied(before[j], before[k]) =>
      /\ \E m \in 1..Len(after) : after[m] = before[j]
      /\ \E m \in 1..Len(after) : after[m] = before[k]
      /\ IndexOf(after, before[j]) < IndexOf(after, before[k])

\* C19: a step that ranks results keeps outcomes that tie in the order they
\* had; the second ranking, by test(), changes nothing; and a final
\* allResults is its own ranking.
C19_StableIdempotent ==
  /\ [][\A r \in Races :
          /\ Len(results'[r]) = Len(results[r]) => KeepsTies(results[r], results'[r])
          /\ runsTCF(r) /\ pc[r] = "testSort" => results'[r] = results[r]]_vars
  /\ [](\A r \in Races : HasFinal(r) => sort(results[r]) = results[r])

\* test() has returned two outcomes that tie, the second position first
C19_Witness ==
  \E r \in Races :
    /\ method[r] = BEST /\ pc[r] \in {"bestRoute", "returned"}
    /\ Len(results[r]) = 2
    /\ Tied(results[r][1], results[r][2])
    /\ results[r][1].pos = 2

\* C20: the result of testConcurrentWithFastest has totalCount equal to the
\* number of configured domains and completedCount equal to the number of
\* settled probes, which are then all of them, and to the length of
\* allResults.
C20_Counts ==
  \A r \in Races :
    runsTCF(r) /\ pc[r] \in {"testSort", "returned"} =>
      /\ ret[r].totalCount = Len(domains)
      /\ ret[r].completedCount = Cardinality(Settled(r))
      /\ ret[r].completedCount = ret[r].totalCount
      /\ ret[r].completedCount = Len(results[r])
      /\ Settled(r) = Positions

\* a result that counts a failure and a success
C20_Witness ==
  \E r \in Races :
    /\ method[r] = TCF /\ pc[r] = "returned"
    /\ ret[r].totalCount = 2 /\ ret[r].completedCount = 2
    /\ Cardinality(Successes(results[r])) = 1


\* C21: getBestRoute returns null if and only if no probe of the run
\* succeeded; otherwise it returns the outcome of a probe of the run that
\* succeeded and whose responseTime is at most that of every successful
\* outcome of the run.
C21_BestRoute ==
  \A r \in Races :
    method[r] = BEST /\ pc[r] = "returned" =>
      LET b == ret[r].bestRoute IN
        /\ b = Null <=> \A i \in Positions : ~result[r][i].success
        /\ b # Null =>
             /\ b.success
             /\ \E i \in Positions : result[r][i] = b
             /\ \A i \in Positions :
                  result[r][i].success => b.responseTime <= result[r][i].responseTime

\* the best route is the success that completed second
C21_Witness ==
  \E r \in Races :
    /\ method[r] = BEST /\ pc[r] = "returned"
    /\ ret[r].bestRoute.success
    /\ fastest[r].success
    /\ ret[r].bestRoute.responseTime < fastest[r].responseTime

\* C22: the serial test() starts the probe of a domain only when the probes
\* of all domains before it have settled, issues one request per started
\* probe, goes on after a success, and returns one outcome per domain,
\* ranked.
C22_Sequential ==
  \A r \in Races :
    method[r] = SEQ =>
      /\ \A i \in Positions :
           /\ probe[r][i] # "unstarted" =>
                \A j \in 1..(i - 1) : probe[r][j] = "fulfilled"
           /\ requests[r][i] = IF probe[r][i] = "unstarted" THEN 0 ELSE 1
      /\ pc[r] = "returned" =>
           /\ Len(results[r]) = Len(domains)
           /\ OnePerPosition(results[r])
           /\ Ranked(results[r])
           /\ \A i \in Positions :
                /\ requests[r][i] = 1
                /\ \E j \in 1..Len(results[r]) : results[r][j] = result[r][i]

\* the first domain succeeded, the second was probed after it and is ranked
\* first
C22_Witness ==
  \E r \in Races :
    /\ method[r] = SEQ /\ pc[r] = "returned" /\ Len(domains) = 2
    /\ result[r][1].success /\ result[r][2].success
    /\ results[r][1].pos = 2

\* C23: every request is sent with the timeout the caller passed, or 5000
\* when none was passed, and with the headers the caller passed, or the
\* empty header set when none were passed.
C23_Defaults ==
  \A r \in Races : \A i \in Positions :
    requests[r][i] >= 1 =>
      /\ requestOptions.timeout =
           IF scenario.given.hasTimeout THEN scenario.given.timeout ELSE 5000
      /\ requestOptions.headers =
           IF scenario.given.hasHeaders THEN scenario.given.headers ELSE {}

\* C24: a step that calls the hook is the completion step of the first
\* successful probe of an invocation that has not returned: the step appends
\* that outcome to results as its last element, latches it as fastest, and
\* passes it to the hook.
C24_HookAtLatch ==
  [][\A r \in Races :
       hookCalls'[r] # hookCalls[r] =>
         LET x == hookCalls'[r][Len(hookCalls'[r])] IN
           /\ hookCalls'[r] = Append(hookCalls[r], x)
           /\ x.success
           /\ Successes(results[r]) = {}
           /\ results'[r] = Append(results[r], x)
           /\ fastest[r] = Null /\ fastest'[r] = x
           /\ pc[r] = "awaitAllSettled" /\ pc'[r] = "awaitAllSettled"]_vars

\* the hook has been called after a failure was appended, while the
\* invocation waits
C24_Witness ==
  \E r \in Races :
    /\ pc[r] = "awaitAllSettled" /\ Len(results[r]) = 2
    /\ ~results[r][1].success
    /\ hookCalls[r] = <<results[r][2]>>

\* C25: the responseTime of every outcome is an integer that is not
\* negative.
C25_NonNegative ==
  \A r \in Races : \A i \in Ended(r) : result[r][i].responseTime \in Nat

\* C26: the reason of a thrown value follows the order of the tests: the code
\* ECONNABORTED first, then a response, then a request, then the message; an
\* Error that is no AxiosError gives its message and any other value the
\* fixed reason.
C26_Priority ==
  \A r \in Races : \A i \in Ended(r) :
    LET e == axiosGet(wire[r][i])
        x == result[r][i]
        aborted == e.code = "ECONNABORTED"
    IN  Thrown(wire[r][i]) =>
          /\ ~x.success
          /\ e.kind = "axiosError" /\ aborted => x.error = "timeout"
          /\ e.kind = "axiosError" /\ ~aborted /\ e.hasResponse =>
               x.error = HttpReason(e)
          /\ e.kind = "axiosError" /\ ~aborted /\ ~e.hasResponse /\ e.hasRequest =>
               x.error = "network connection failed"
          /\ e.kind = "axiosError" /\ ~aborted /\ ~e.hasResponse /\ ~e.hasRequest =>
               x.error = e.message
          /\ e.kind = "error" => x.error = e.message
          /\ e.kind = "nonError" => x.error = "unknown error"

\* an error with the code ECONNABORTED and a response is reported as timeout
C26_Witness ==
  \E r \in Races : \E i \in Ended(r) :
    /\ wire[r][i] = WireAborted
    /\ result[r][i].error = "timeout"

\* C27: with a hook that throws, the hook is called at most once, fastest
\* stays the outcome it was called with, and the invocation returns a
\* result that carries that fastest and the N outcomes of the probes,
\* ranked, none missing and none twice.
C27_HookThrows ==
  \A r \in Races :
    method[r] = TCF /\ onFastestResult[r] = "throws" =>
      /\ Len(hookCalls[r]) <= 1
      /\ hookCalls[r] # << >> => fastest[r] = hookCalls[r][1]
      /\ pc[r] = "returned" =>
           /\ Len(results[r]) = Len(domains)
           /\ OnePerPosition(results[r])
           /\ Ranked(results[r])
           /\ \A i \in Positions :
                \E j \in 1..Len(results[r]) : results[r][j] = result[r][i]
           /\ ret[r].fastest = fastest[r]
           /\ ret[r].completedCount = Len(domains)

\* the hook threw at the first success, a second success came later, and
\* the invocation returned
C27_Witness ==
  \E r \in Races :
    /\ method[r] = TCF /\ onFastestResult[r] = "throws" /\ pc[r] = "returned"
    /\ \E i \in Positions : probe[r][i] = "rejected"
    /\ Cardinality(Successes(results[r])) = 2
    /\ Len(hookCalls[r]) = 1

\* C28: when some probe succeeded, the latched fastest is the first element
\* of the final allResults, and the outcome getBestRoute returns.
C28_FastestRankedFirst ==
  \A r \in Races :
    /\ HasFinal(r) /\ Successes(results[r]) # {} => results[r][1] = fastest[r]
    /\ method[r] = BEST /\ pc[r] = "returned" /\ ret[r].bestRoute # Null =>
         ret[r].bestRoute = ret[r].fastest

\* C29: once every probe of a race has settled, fastest is an outcome if and
\* only if results holds a successful outcome, and it is then a successful
\* element of results.
C29_FastestIffSuccess ==
  \A r \in Races :
    (runsTCF(r) \/ method[r] = GBR) /\ Settled(r) = Positions =>
      /\ fastest[r] # Null <=> Successes(results[r]) # {}
      /\ fastest[r] # Null =>
           /\ fastest[r].success
           /\ \E j \in 1..Len(results[r]) : results[r][j] = fastest[r]

\* every probe has settled, a failure first and then a success, and results
\* is not ranked yet
C29_Witness ==
  \E r \in Races :
    /\ Settled(r) = Positions /\ Len(results[r]) = 2
    /\ Collecting(r)
    /\ ~results[r][1].success
    /\ results[r][2] = fastest[r]

\* C30: in getBestRouteWithContinuousTesting a fulfilled fastest promise
\* never changes; it holds the first success, or null when every probe has
\* settled and none succeeded; and it is fulfilled when the allResults
\* promise is.
C30_FastestResolvedOnce ==
  /\ [][\A r \in Races :
          fastestPromise[r].state = "fulfilled" => fastestPromise'[r] = fastestPromise[r]]_vars
  /\ [](\A r \in Races :
          method[r] = GBR =>
            /\ fastestPromise[r].state = "fulfilled" =>
                 /\ fastestPromise[r].value = fastest[r]
                 /\ fastest[r] = Null =>
                      Settled(r) = Positions /\ Successes(results[r]) = {}
            /\ allResultsPromise[r] = "fulfilled" =>
                 fastestPromise[r].state = "fulfilled")

\* the fastest promise was fulfilled with a success before the last probe
\* settled, and allResults is fulfilled
C30_Witness ==
  \E r \in Races :
    /\ method[r] = GBR /\ allResultsPromise[r] = "fulfilled"
    /\ fastestPromise[r].value.success
    /\ Len(results[r]) = 2
    /\ ~results[r][2].success


\* C31: when every request ends, every invocation of
\* testConcurrentWithFastest returns, and every invocation of
\* getBestRouteWithContinuousTesting returns its fastest value and has its
\* allResults promise fulfilled.
C31_Terminates ==
  \A r \in Races :
    /\ method[r] = TCF ~> pc[r] = "returned"
    /\ method[r] = GBR ~> (pc[r] = "returned" /\ allResultsPromise[r] = "fulfilled")

\* the hook threw at the first completion, the other probe failed later, and
\* the invocation has returned
C31_Witness ==
  \E r \in Races :
    /\ method[r] = TCF /\ pc[r] = "returned" /\ Len(domains) = 2
    /\ probe[r][2] = "rejected"
    /\ ~results[r][2].success


\* C32: of two invocations that overlap, each holds in its results the
\* outcomes of its own settled probes and no others, one for each; its
\* fastest is null exactly when none of its own outcomes is a success,
\* whatever the other has latched; and its final allResults has N outcomes.
C32_Isolated ==
  \A r \in Races :
    /\ Len(results[r]) = Cardinality(Settled(r))
    /\ \A j \in 1..Len(results[r]) :
         /\ results[r][j].pos \in Settled(r)
         /\ results[r][j] = result[r][results[r][j].pos]
         /\ \A k \in 1..Len(results[r]) :
              results[r][j].pos = results[r][k].pos => j = k
    /\ runsTCF(r) \/ method[r] = GBR =>
         /\ fastest[r] = Null <=> Successes(results[r]) = {}
         /\ fastest[r] # Null => \E j \in 1..Len(results[r]) : results[r][j] = fastest[r]
    /\ HasFinal(r) => Len(results[r]) = Len(domains)

\* the first invocation has latched a success and still waits, the second
\* has collected a failure and has no fastest
C32_Witness ==
  /\ method[1] = TCF /\ pc[1] = "awaitAllSettled" /\ fastest[1].success
  /\ method[2] = GBR /\ Len(results[2]) = 1
  /\ ~results[2][1].success /\ fastest[2] = Null
  /\ results[1] # results[2]


\* C33: when the expected value cannot be serialized, a 2xx response gives an
\* outcome with success = false and the mismatch reason, with the body it
\* received, and the callback that awaits the probe is not rejected.
C33_ValidateNeverThrows ==
  \A r \in Races : \A i \in Ended(r) :
    stringifyThrows(scenario.expectedResponse) /\ ~Thrown(wire[r][i]) =>
      /\ ~result[r][i].success
      /\ result[r][i].error = "response mismatch"
      /\ result[r][i].data = wire[r][i].data
      /\ probe[r][i] # "rejected"

\* a 200 response was compared with an expected value that refers to itself
C33_Witness ==
  \E r \in Races : \E i \in Ended(r) :
    /\ scenario.expectedResponse = "cyclic"
    /\ wire[r][i] = WireOkMatch
    /\ result[r][i].error = "response mismatch"
    /\ probe[r][i] = "fulfilled"

=============================================================================
